---- MODULE Spec2Model ----
(***************************************************************************)
(* Model of src/internal/site/api/proxy.rs: the readiness state machine    *)
(* (READY, INIT_LOCK, GO), the request handler and the shutdown tasks.     *)
(* Every request is a task running handler(); the backend executable is a  *)
(* process of the environment that the proxy spawns, probes and kills.     *)
(***************************************************************************)
EXTENDS Naturals, FiniteSets, Sequences, TLC

\* ------------------------------------------------------------------ bounds
\* concurrently scheduled handler invocations
NumTasks == 2
\* requests served in one run, over all tasks
MaxReq == 3
\* backend processes the OS lets the proxy start in one run
MaxProcs == 2
\* iterations of the health loop after which the deadline has elapsed
MaxPolls == 2
\* headers of one request or response
MaxHeaders == 2

Tasks == 1..NumTasks
Pids == 1..MaxProcs
Sigs == {"int", "term"}

\* The three error strings of ensure_ready, and its success.
ErrMissing == "go binary not found"
ErrSpawn == "spawn failed"
ErrTimeout == "health check timed out"
ResOk == "Ok"
NoRes == "none"

NoResponse == [status |-> 0, body |-> ""]

\* ------------------------------------------------------ header sanitizing
\* Header names are sequences of one-character strings.
LowerOf ==
    ("A" :> "a") @@ ("C" :> "c") @@ ("D" :> "d") @@ ("E" :> "e") @@
    ("G" :> "g") @@ ("H" :> "h") @@ ("I" :> "i") @@ ("K" :> "k") @@
    ("L" :> "l") @@ ("N" :> "n") @@ ("O" :> "o") @@ ("P" :> "p") @@
    ("R" :> "r") @@ ("S" :> "s") @@ ("T" :> "t") @@ ("U" :> "u") @@
    ("V" :> "v") @@ ("X" :> "x") @@ ("Y" :> "y") @@ ("Z" :> "z")

\* char::to_lowercase on the characters the names are written with.
to_lowercase_char(c) == IF c \in DOMAIN LowerOf THEN LowerOf[c] ELSE c

\* str::to_lowercase
to_lowercase(name) == [i \in 1..Len(name) |-> to_lowercase_char(name[i])]

\* The string literals of the matches! in is_hop_by_hop_header.
HopByHop == {
    <<"c", "o", "n", "n", "e", "c", "t", "i", "o", "n">>,
    <<"k", "e", "e", "p", "-", "a", "l", "i", "v", "e">>,
    <<"p", "r", "o", "x", "y", "-", "a", "u", "t", "h", "e", "n", "t", "i",
      "c", "a", "t", "e">>,
    <<"p", "r", "o", "x", "y", "-", "a", "u", "t", "h", "o", "r", "i", "z",
      "a", "t", "i", "o", "n">>,
    <<"t", "e">>,
    <<"t", "r", "a", "i", "l", "e", "r", "s">>,
    <<"t", "r", "a", "n", "s", "f", "e", "r", "-", "e", "n", "c", "o", "d",
      "i", "n", "g">>,
    <<"u", "p", "g", "r", "a", "d", "e">>,
    <<"h", "o", "s", "t">> }

\* A filter that compares the name as it was written.
is_hop_by_hop_exact(name) == name \in HopByHop

\* matches!(name.to_lowercase().as_str(), "connection" | .. | "host")
is_hop_by_hop_header(name) == to_lowercase(name) \in HopByHop

\* Names a request or a response can carry besides the literals above:
\* other casings of them, and names that are near them or unrelated.
OtherNames == {
    <<"C", "o", "n", "n", "e", "c", "t", "i", "o", "n">>,
    <<"K", "e", "e", "p", "-", "A", "l", "i", "v", "e">>,
    <<"T", "E">>,
    <<"T", "r", "a", "i", "l", "e", "r", "s">>,
    <<"U", "P", "G", "R", "A", "D", "E">>,
    <<"H", "o", "s", "t">>,
    <<"h", "O", "S", "t">>,
    <<"h", "o", "s", "t", "s">>,
    <<"x", "-", "t", "e">>,
    <<"T", "e", "x", "t">>,
    <<"a", "c", "c", "e", "p", "t">>,
    <<"C", "o", "o", "k", "i", "e">> }

HeaderNames == HopByHop \cup OtherNames

HeaderValues == {"v1", "v2"}

\* At most MaxHeaders headers, any name with any value, repeats included.
HeaderLists ==
    UNION {[1..n -> HeaderNames \X HeaderValues] : n \in 0..MaxHeaders}

VARIABLES
    READY,        \* static READY: AtomicBool
    INIT_LOCK,    \* static INIT_LOCK: 0 when free, else the task holding it
    GO,           \* static GO: 0 for None, else the pid of the tracked Child
    proc,         \* the OS view of every backend process
    pc,           \* where each handler invocation stands
    child,        \* per task: `child`, the pid this ensure_ready() call spawned
    polls,        \* per task: iterations of the health loop completed
    target,       \* per task: the process the outbound call was connected to
    result,       \* per task: what ensure_ready() returned to handler
    response,     \* per task: what handler returned to the runtime
    sig,          \* per signal task: waiting, shutdown, exit
    exited,       \* std::process::exit(0) has run
    reqs,         \* requests started so far
    spawns,       \* history: successful Command::spawn calls
    resets,       \* history: deadline expiries plus READY.store(false) runs
    healthChecked, \* history: processes whose probe returned success
    raced,        \* history: the first calls of all tasks raced, READY false
    killed,       \* history: the processes child.kill() was called on
    hdir,         \* header copy: "request", "response", or "none"
    hin,          \* header copy: the headers iterated, as (name, value) pairs
    hidx,         \* header copy: position of the `for (k, v)` loop
    hout          \* header copy: the headers given to the builder so far

\* The proxy's state and the state of one header copy loop.
pvars == <<READY, INIT_LOCK, GO, proc, pc, child, polls, target, result,
           response, sig, exited, reqs, spawns, resets, healthChecked, raced,
           killed>>

hvars == <<hdir, hin, hidx, hout>>

vars == <<pvars, hvars>>

\* The values the state takes.
TypeOK ==
    /\ READY \in BOOLEAN
    /\ INIT_LOCK \in {0} \cup Tasks
    /\ GO \in {0} \cup Pids
    /\ proc \in [Pids -> {"unborn", "starting", "serving", "hung", "dead"}]
    /\ pc \in [Tasks -> {"idle", "er_fast", "er_lock", "er_recheck",
                          "er_kill", "er_exists", "er_spawn", "er_store",
                          "er_poll", "er_probe", "respond503", "forward",
                          "awaiting", "panic", "done", "aborted"}]
    /\ child \in [Tasks -> {0} \cup Pids]
    /\ polls \in [Tasks -> 0..MaxPolls]
    /\ target \in [Tasks -> {0} \cup Pids]
    /\ result \in [Tasks -> {NoRes, ResOk, ErrMissing, ErrSpawn, ErrTimeout}]
    /\ \A t \in Tasks : response[t].status \in {0, 200, 503}
    /\ sig \in [Sigs -> {"waiting", "shutdown", "exit"}]
    /\ exited \in BOOLEAN
    /\ reqs \in 0..MaxReq
    /\ spawns \in 0..MaxProcs
    /\ resets \in 0..MaxReq
    /\ healthChecked \subseteq Pids
    /\ raced \in BOOLEAN
    /\ killed \subseteq Pids
    /\ hdir \in {"none", "request", "response"}
    /\ hin \in HeaderLists
    /\ hidx \in 1..(MaxHeaders + 1)
    /\ hout \in HeaderLists

\* ------------------------------------------------------------ the backend
Alive(p) == proc[p] \in {"starting", "serving", "hung"}

\* The processes accepting connections on PORT.
Listeners == {p \in Pids : proc[p] \in {"serving", "hung"}}

\* The process an outbound connection to 127.0.0.1:PORT reaches; 0: refused.
Peers == IF Listeners = {} THEN {0} ELSE Listeners

\* The backend binds PORT and serves; the port is free of other listeners.
BackendUp(p) ==
    /\ proc[p] = "starting"
    /\ Listeners = {}
    /\ proc' = [proc EXCEPT ![p] = "serving"]
    /\ UNCHANGED <<READY, INIT_LOCK, GO, pc, child, polls, target, result,
                   response, sig, exited, reqs, spawns, resets,
                   healthChecked, raced, killed, hvars>>

\* The backend dies on its own or is killed from outside the proxy.
BackendCrash(p) ==
    /\ Alive(p)
    /\ proc' = [proc EXCEPT ![p] = "dead"]
    /\ UNCHANGED <<READY, INIT_LOCK, GO, pc, child, polls, target, result,
                   response, sig, exited, reqs, spawns, resets,
                   healthChecked, raced, killed, hvars>>

\* The backend keeps its socket open but stops answering.
BackendHang(p) ==
    /\ proc[p] = "serving"
    /\ proc' = [proc EXCEPT ![p] = "hung"]
    /\ UNCHANGED <<READY, INIT_LOCK, GO, pc, child, polls, target, result,
                   response, sig, exited, reqs, spawns, resets,
                   healthChecked, raced, killed, hvars>>

\* ------------------------------------------------------------- kill_child
\* A kill_child that leaves the slot and the process as they are.
KillChildForgets ==
    UNCHANGED <<GO, proc, killed>>

\* A kill_child that kills the tracked process and leaves its handle.
KillChildKeepsHandle ==
    /\ GO' = GO
    /\ proc' = IF GO # 0 THEN [proc EXCEPT ![GO] = "dead"] ELSE proc
    /\ killed' = IF GO # 0 THEN killed \cup {GO} ELSE killed

\* guard.take(), child.kill(), child.wait(), all under the GO mutex.
KillChild ==
    /\ GO' = 0
    /\ proc' = IF GO # 0 THEN [proc EXCEPT ![GO] = "dead"] ELSE proc
    /\ killed' = IF GO # 0 THEN killed \cup {GO} ELSE killed

\* ----------------------------------------------------------- ensure_ready
InStartup(t) == pc[t] \in {"er_kill", "er_exists", "er_spawn", "er_store",
                           "er_poll", "er_probe"}

\* Past the first load of READY, which was false, and not yet returned.
InSlowPath(t) == pc[t] \in {"er_lock", "er_recheck"} \/ InStartup(t)

\* handler is invoked for a new request and calls ensure_ready().
BeginRequest(t) ==
    /\ ~exited
    /\ pc[t] \in {"idle", "done", "aborted"}
    /\ reqs < MaxReq
    /\ reqs' = reqs + 1
    /\ pc' = [pc EXCEPT ![t] = "er_fast"]
    /\ child' = [child EXCEPT ![t] = 0]
    /\ polls' = [polls EXCEPT ![t] = 0]
    /\ target' = [target EXCEPT ![t] = 0]
    /\ result' = [result EXCEPT ![t] = NoRes]
    /\ response' = [response EXCEPT ![t] = NoResponse]
    /\ raced' = (raced /\ reqs < NumTasks)
    /\ UNCHANGED <<READY, INIT_LOCK, GO, proc, sig, exited, spawns, resets,
                   healthChecked, killed, hvars>>

\* An ensure_ready without the fast path: every call goes for the lock.
FastPathAlwaysLocks(t) ==
    /\ ~exited
    /\ pc[t] = "er_fast"
    /\ pc' = [pc EXCEPT ![t] = "er_lock"]
    /\ raced' = (raced \/ (~READY /\ reqs = NumTasks /\
                            \A u \in Tasks \ {t} : InSlowPath(u)))
    /\ UNCHANGED <<READY, INIT_LOCK, GO, proc, child, polls, target, result,
                   response, sig, exited, reqs, spawns, resets, healthChecked,
                   killed, hvars>>

\* if READY.load(Acquire) { return Ok(()) }
\* raced records that this load saw false while every other task was
\* between its own first load and its return from ensure_ready(), each task
\* serving its first request.
FastPath(t) ==
    /\ ~exited
    /\ pc[t] = "er_fast"
    /\ IF READY
         THEN /\ pc' = [pc EXCEPT ![t] = "forward"]
              /\ result' = [result EXCEPT ![t] = ResOk]
              /\ UNCHANGED raced
         ELSE /\ pc' = [pc EXCEPT ![t] = "er_lock"]
              /\ raced' = (raced \/ (reqs = NumTasks /\
                                      \A u \in Tasks \ {t} : InSlowPath(u)))
              /\ UNCHANGED result
    /\ UNCHANGED <<READY, INIT_LOCK, GO, proc, child, polls, target, response,
                   sig, exited, reqs, spawns, resets, healthChecked,
                   killed, hvars>>

\* A lock() that does not wait for the holder.
AcquireLockUnguarded(t) ==
    /\ ~exited
    /\ pc[t] = "er_lock"
    /\ INIT_LOCK' = t
    /\ pc' = [pc EXCEPT ![t] = "er_recheck"]
    /\ UNCHANGED <<READY, GO, proc, child, polls, target, result, response,
                   sig, exited, reqs, spawns, resets, healthChecked, raced,
                   killed, hvars>>

\* let _lock = INIT_LOCK.lock().await
AcquireLock(t) ==
    /\ ~exited
    /\ pc[t] = "er_lock"
    /\ INIT_LOCK = 0
    /\ INIT_LOCK' = t
    /\ pc' = [pc EXCEPT ![t] = "er_recheck"]
    /\ UNCHANGED <<READY, GO, proc, child, polls, target, result, response,
                   sig, exited, reqs, spawns, resets,
                   healthChecked, raced, killed, hvars>>

\* An ensure_ready without the second load: the lock holder always starts up.
DoubleCheckSkipped(t) ==
    /\ ~exited
    /\ pc[t] = "er_recheck"
    /\ pc' = [pc EXCEPT ![t] = "er_kill"]
    /\ UNCHANGED <<READY, INIT_LOCK, GO, proc, child, polls, target, result,
                   response, sig, exited, reqs, spawns, resets, healthChecked,
                   raced, killed, hvars>>

\* The second READY.load under the lock; returning drops _lock.
DoubleCheck(t) ==
    /\ ~exited
    /\ pc[t] = "er_recheck"
    /\ IF READY
         THEN /\ pc' = [pc EXCEPT ![t] = "forward"]
              /\ result' = [result EXCEPT ![t] = ResOk]
              /\ INIT_LOCK' = 0
         ELSE /\ pc' = [pc EXCEPT ![t] = "er_kill"]
              /\ UNCHANGED <<result, INIT_LOCK>>
    /\ UNCHANGED <<READY, GO, proc, child, polls, target, response, sig,
                   exited, reqs, spawns, resets, healthChecked, raced,
                   killed, hvars>>

\* A startup sequence that does not clean up the previous handle.
StartupKillSkipped(t) ==
    /\ ~exited
    /\ pc[t] = "er_kill"
    /\ pc' = [pc EXCEPT ![t] = "er_exists"]
    /\ UNCHANGED <<READY, INIT_LOCK, GO, proc, child, polls, target, result,
                   response, sig, exited, reqs, spawns, resets, healthChecked,
                   raced, killed, hvars>>

\* kill_child() at the head of the startup sequence.
StartupKill(t) ==
    /\ ~exited
    /\ pc[t] = "er_kill"
    /\ KillChild
    /\ pc' = [pc EXCEPT ![t] = "er_exists"]
    /\ UNCHANGED <<READY, INIT_LOCK, child, polls, target, result, response,
                   sig, exited, reqs, spawns, resets,
                   healthChecked, raced, hvars>>

\* A not-found return that forgets to drop the `_lock` guard.
CheckExecutableKeepsLock(t) ==
    /\ ~exited
    /\ pc[t] = "er_exists"
    /\ \E exists \in BOOLEAN :
         IF exists
           THEN /\ pc' = [pc EXCEPT ![t] = "er_spawn"]
                /\ UNCHANGED result
           ELSE /\ pc' = [pc EXCEPT ![t] = "respond503"]
                /\ result' = [result EXCEPT ![t] = ErrMissing]
    /\ UNCHANGED <<READY, INIT_LOCK, GO, proc, child, polls, target,
                   response, sig, exited, reqs, spawns, resets,
                   healthChecked, raced, killed, hvars>>

\* std::fs::metadata(&go_path).is_err() => return Err(..not found..)
CheckExecutable(t) ==
    /\ ~exited
    /\ pc[t] = "er_exists"
    /\ \E exists \in BOOLEAN :
         IF exists
           THEN /\ pc' = [pc EXCEPT ![t] = "er_spawn"]
                /\ UNCHANGED <<result, INIT_LOCK>>
           ELSE /\ pc' = [pc EXCEPT ![t] = "respond503"]
                /\ result' = [result EXCEPT ![t] = ErrMissing]
                /\ INIT_LOCK' = 0
    /\ UNCHANGED <<READY, GO, proc, child, polls, target, response, sig,
                   exited, reqs, spawns, resets, healthChecked, raced,
                   killed, hvars>>

\* Command::new(..).spawn().map_err(..)?  The OS starts at most MaxProcs.
Spawn(t) ==
    /\ ~exited
    /\ pc[t] = "er_spawn"
    /\ \E ok \in BOOLEAN :
         IF ok
           THEN /\ spawns < MaxProcs
                /\ spawns' = spawns + 1
                /\ proc' = [proc EXCEPT ![spawns + 1] = "starting"]
                /\ child' = [child EXCEPT ![t] = spawns + 1]
                /\ pc' = [pc EXCEPT ![t] = "er_store"]
                /\ UNCHANGED <<result, INIT_LOCK>>
           ELSE /\ pc' = [pc EXCEPT ![t] = "respond503"]
                /\ result' = [result EXCEPT ![t] = ErrSpawn]
                /\ INIT_LOCK' = 0
                /\ UNCHANGED <<spawns, proc, child>>
    /\ UNCHANGED <<READY, GO, polls, target, response, sig, exited, reqs,
                   resets, healthChecked, raced, killed, hvars>>

\* *guard = Some(child): the previous content of the slot is dropped unkilled.
StoreHandle(t) ==
    /\ ~exited
    /\ pc[t] = "er_store"
    /\ GO' = child[t]
    /\ pc' = [pc EXCEPT ![t] = "er_poll"]
    /\ UNCHANGED <<READY, INIT_LOCK, proc, child, polls, target, result,
                   response, sig, exited, reqs, spawns, resets,
                   healthChecked, raced, killed, hvars>>

\* while Instant::now() < deadline: the probe is sent and awaited.
ProbeSend(t) ==
    /\ ~exited
    /\ pc[t] = "er_poll"
    /\ polls[t] < MaxPolls
    /\ pc' = [pc EXCEPT ![t] = "er_probe"]
    /\ UNCHANGED <<READY, INIT_LOCK, GO, proc, child, polls, target, result,
                   response, sig, exited, reqs, spawns, resets,
                   healthChecked, raced, killed, hvars>>

\* The answer of a probe connected to p: success of a serving peer, else an
\* error or a non-success status; a hung peer never answers.
ProbeOutcomes(p) ==
    IF p = 0 THEN {"net_err"}
    ELSE IF proc[p] = "dead" THEN {"net_err"}
    ELSE IF proc[p] = "serving" THEN {"success", "bad_status"}
    ELSE {}

\* A health loop that gives up on the first probe that is not a success.
ProbeCompleteFatal(t) ==
    /\ ~exited
    /\ pc[t] = "er_probe"
    /\ \E p \in Peers : \E o \in ProbeOutcomes(p) :
         IF o = "success"
           THEN /\ READY' = TRUE
                /\ healthChecked' = healthChecked \cup {p}
                /\ result' = [result EXCEPT ![t] = ResOk]
                /\ pc' = [pc EXCEPT ![t] = "forward"]
           ELSE /\ result' = [result EXCEPT ![t] = ErrTimeout]
                /\ pc' = [pc EXCEPT ![t] = "respond503"]
                /\ UNCHANGED <<READY, healthChecked>>
    /\ INIT_LOCK' = 0
    /\ child' = [child EXCEPT ![t] = 0]
    /\ polls' = [polls EXCEPT ![t] = 0]
    /\ UNCHANGED <<GO, proc, target, response, sig, exited, reqs, spawns,
                   resets, raced, killed, hvars>>

\* is_healthy => READY.store(true), return Ok(()); else sleep(POLL).
ProbeComplete(t) ==
    /\ ~exited
    /\ pc[t] = "er_probe"
    /\ \E p \in Peers : \E o \in ProbeOutcomes(p) :
         IF o = "success"
           THEN /\ READY' = TRUE
                /\ healthChecked' = healthChecked \cup {p}
                /\ result' = [result EXCEPT ![t] = ResOk]
                /\ INIT_LOCK' = 0
                /\ pc' = [pc EXCEPT ![t] = "forward"]
                /\ child' = [child EXCEPT ![t] = 0]
                /\ polls' = [polls EXCEPT ![t] = 0]
           ELSE /\ polls' = [polls EXCEPT ![t] = polls[t] + 1]
                /\ pc' = [pc EXCEPT ![t] = "er_poll"]
                /\ UNCHANGED <<READY, healthChecked, result, INIT_LOCK, child>>
    /\ UNCHANGED <<GO, proc, target, response, sig, exited, reqs, spawns,
                   resets, raced, killed, hvars>>

\* A deadline branch that returns the error and leaves the process running.
DeadlineElapsedNoKill(t) ==
    /\ ~exited
    /\ pc[t] = "er_poll"
    /\ result' = [result EXCEPT ![t] = ErrTimeout]
    /\ INIT_LOCK' = 0
    /\ resets' = resets + 1
    /\ pc' = [pc EXCEPT ![t] = "respond503"]
    /\ child' = [child EXCEPT ![t] = 0]
    /\ polls' = [polls EXCEPT ![t] = 0]
    /\ UNCHANGED <<READY, GO, proc, target, response, sig, exited, reqs,
                   spawns, healthChecked, raced, killed, hvars>>

\* The loop condition fails: kill_child(); Err("health check timed out").
DeadlineElapsed(t) ==
    /\ ~exited
    /\ pc[t] = "er_poll"
    /\ KillChild
    /\ result' = [result EXCEPT ![t] = ErrTimeout]
    /\ INIT_LOCK' = 0
    /\ resets' = resets + 1
    /\ pc' = [pc EXCEPT ![t] = "respond503"]
    /\ child' = [child EXCEPT ![t] = 0]
    /\ polls' = [polls EXCEPT ![t] = 0]
    /\ UNCHANGED <<READY, target, response, sig, exited, reqs, spawns,
                   healthChecked, raced, hvars>>

\* ---------------------------------------------------------------- handler
\* A handler that ignores the error of ensure_ready() and forwards anyway.
Respond503Forwards(t) ==
    /\ ~exited
    /\ pc[t] = "respond503"
    /\ pc' = [pc EXCEPT ![t] = "forward"]
    /\ UNCHANGED <<READY, INIT_LOCK, GO, proc, child, polls, target, result,
                   response, sig, exited, reqs, spawns, resets, healthChecked,
                   raced, killed, hvars>>

\* if let Err(e) = ensure_ready().await { return Ok(503 with body e) }
Respond503(t) ==
    /\ ~exited
    /\ pc[t] = "respond503"
    /\ response' = [response EXCEPT ![t] = [status |-> 503, body |-> result[t]]]
    /\ pc' = [pc EXCEPT ![t] = "done"]
    /\ UNCHANGED <<READY, INIT_LOCK, GO, proc, child, polls, target, result,
                   sig, exited, reqs, spawns, resets,
                   healthChecked, raced, killed, hvars>>

\* proxy_client().request(..): the connection to PORT is made.
ForwardSend(t) ==
    /\ ~exited
    /\ pc[t] = "forward"
    /\ \E p \in Peers : target' = [target EXCEPT ![t] = p]
    /\ pc' = [pc EXCEPT ![t] = "awaiting"]
    /\ UNCHANGED <<READY, INIT_LOCK, GO, proc, child, polls, result, response,
                   sig, exited, reqs, spawns, resets,
                   healthChecked, raced, killed, hvars>>

\* Ok(res): the backend's status and headers are relayed.
ForwardOk(t) ==
    /\ ~exited
    /\ pc[t] = "awaiting"
    /\ target[t] # 0
    /\ proc[target[t]] = "serving"
    /\ response' = [response EXCEPT ![t] = [status |-> 200, body |-> "backend"]]
    /\ pc' = [pc EXCEPT ![t] = "done"]
    /\ target' = [target EXCEPT ![t] = 0]
    /\ UNCHANGED <<READY, INIT_LOCK, GO, proc, child, polls, result,
                   sig, exited, reqs, spawns, resets,
                   healthChecked, raced, killed, hvars>>

\* An error branch that panics without the store to READY.
ForwardErrKeepsReady(t) ==
    /\ ~exited
    /\ pc[t] = "awaiting"
    /\ IF target[t] = 0 THEN TRUE ELSE proc[target[t]] = "dead"
    /\ pc' = [pc EXCEPT ![t] = "panic"]
    /\ target' = [target EXCEPT ![t] = 0]
    /\ UNCHANGED <<READY, INIT_LOCK, GO, proc, child, polls, result, response,
                   sig, exited, reqs, spawns, resets, healthChecked, raced,
                   killed, hvars>>

\* Err(e): READY.store(false, Release), then the panic (next action).
ForwardErr(t) ==
    /\ ~exited
    /\ pc[t] = "awaiting"
    /\ IF target[t] = 0 THEN TRUE ELSE proc[target[t]] = "dead"
    /\ READY' = FALSE
    /\ resets' = resets + 1
    /\ pc' = [pc EXCEPT ![t] = "panic"]
    /\ target' = [target EXCEPT ![t] = 0]
    /\ UNCHANGED <<INIT_LOCK, GO, proc, child, polls, result, response,
                   sig, exited, reqs, spawns, healthChecked, raced,
                   killed, hvars>>

\* panic!("backend connection failed"): the invocation ends without a value.
Panic(t) ==
    /\ ~exited
    /\ pc[t] = "panic"
    /\ pc' = [pc EXCEPT ![t] = "aborted"]
    /\ UNCHANGED <<READY, INIT_LOCK, GO, proc, child, polls, target, result,
                   response, sig, exited, reqs, spawns, resets,
                   healthChecked, raced, killed, hvars>>

\* --------------------------------------------------------- shutdown tasks
\* ctrl_c().await / sig.recv().await completes.
SignalArrives(s) ==
    /\ ~exited
    /\ sig[s] = "waiting"
    /\ sig' = [sig EXCEPT ![s] = "shutdown"]
    /\ UNCHANGED <<READY, INIT_LOCK, GO, proc, pc, child, polls, target,
                   result, response, exited, reqs, spawns, resets,
                   healthChecked, raced, killed, hvars>>

\* A shutdown() that also stores false to READY.
ShutdownClearsReady(s) ==
    /\ ~exited
    /\ sig[s] = "shutdown"
    /\ KillChild
    /\ READY' = FALSE
    /\ sig' = [sig EXCEPT ![s] = "exit"]
    /\ UNCHANGED <<INIT_LOCK, pc, child, polls, target, result, response,
                   exited, reqs, spawns, resets, healthChecked, raced, hvars>>

\* shutdown(): kill_child().
Shutdown(s) ==
    /\ ~exited
    /\ sig[s] = "shutdown"
    /\ KillChild
    /\ sig' = [sig EXCEPT ![s] = "exit"]
    /\ UNCHANGED <<READY, INIT_LOCK, pc, child, polls, target, result,
                   response, exited, reqs, spawns, resets,
                   healthChecked, raced, hvars>>

\* std::process::exit(0): every task of the proxy stops.
Exit(s) ==
    /\ ~exited
    /\ sig[s] = "exit"
    /\ exited' = TRUE
    /\ UNCHANGED <<READY, INIT_LOCK, GO, proc, pc, child, polls, target,
                   result, response, sig, reqs, spawns, resets,
                   healthChecked, raced, killed, hvars>>

\* ------------------------------------------------------ the header loops
\* for (k, v) in &parts.headers { if !is_hop_by_hop_header(k.as_str())
\*     { builder = builder.header(k, v) } }      (the inbound request)
CopyRequestHeader ==
    /\ hdir = "request"
    /\ hidx <= Len(hin)
    /\ hout' = IF is_hop_by_hop_header(hin[hidx][1])
                 THEN hout
                 ELSE Append(hout, hin[hidx])
    /\ hidx' = hidx + 1
    /\ UNCHANGED <<hdir, hin, pvars>>

\* for (k, v) in &parts.headers { if !is_hop_by_hop_header(k.as_str())
\*     { response = response.header(k, v) } }    (the backend's response)
CopyResponseHeader ==
    /\ hdir = "response"
    /\ hidx <= Len(hin)
    /\ hout' = IF is_hop_by_hop_header(hin[hidx][1])
                 THEN hout
                 ELSE Append(hout, hin[hidx])
    /\ hidx' = hidx + 1
    /\ UNCHANGED <<hdir, hin, pvars>>

\* ---------------------------------------------------------- specification
\* The statics as declared, no request under way, no signal received.
InitProxy ==
    /\ READY = FALSE
    /\ INIT_LOCK = 0
    /\ GO = 0
    /\ proc = [p \in Pids |-> "unborn"]
    /\ pc = [t \in Tasks |-> "idle"]
    /\ child = [t \in Tasks |-> 0]
    /\ polls = [t \in Tasks |-> 0]
    /\ target = [t \in Tasks |-> 0]
    /\ result = [t \in Tasks |-> NoRes]
    /\ response = [t \in Tasks |-> NoResponse]
    /\ sig = [s \in Sigs |-> "waiting"]
    /\ exited = FALSE
    /\ reqs = 0
    /\ spawns = 0
    /\ resets = 0
    /\ healthChecked = {}
    /\ raced = FALSE
    /\ killed = {}

\* The proxy from its start; no header copy is looked at.
Init ==
    /\ InitProxy
    /\ hdir = "none"
    /\ hin = <<>>
    /\ hidx = 1
    /\ hout = <<>>

TaskNext ==
    \E t \in Tasks :
        \/ BeginRequest(t)
        \/ FastPath(t)
        \/ AcquireLock(t)
        \/ DoubleCheck(t)
        \/ StartupKill(t)
        \/ CheckExecutable(t)
        \/ Spawn(t)
        \/ StoreHandle(t)
        \/ ProbeSend(t)
        \/ ProbeComplete(t)
        \/ DeadlineElapsed(t)
        \/ Respond503(t)
        \/ ForwardSend(t)
        \/ ForwardOk(t)
        \/ ForwardErr(t)
        \/ Panic(t)

SignalNext ==
    \E s \in Sigs : SignalArrives(s) \/ Shutdown(s) \/ Exit(s)

Next ==
    \/ TaskNext
    \/ SignalNext
    \/ \E p \in Pids : BackendUp(p)
    \/ \E p \in Pids : BackendCrash(p)
    \/ \E p \in Pids : BackendHang(p)

Spec == Init /\ [][Next]_vars

\* The same proxy in front of a backend that never fails by itself: every
\* death of a backend process is then the proxy's own doing.
NextSupervised ==
    \/ TaskNext
    \/ SignalNext
    \/ \E p \in Pids : BackendUp(p)

SpecSupervised == Init /\ [][NextSupervised]_vars

\* What the runtime's scheduler guarantees: a handler invocation that can take
\* its next step takes it, and so does a signal task once its signal has
\* arrived. Nothing makes a request or a signal arrive, nor the backend come
\* up, answer or die.
TaskStep(t) ==
    \/ FastPath(t)
    \/ AcquireLock(t)
    \/ DoubleCheck(t)
    \/ StartupKill(t)
    \/ CheckExecutable(t)
    \/ Spawn(t)
    \/ StoreHandle(t)
    \/ ProbeSend(t)
    \/ ProbeComplete(t)
    \/ DeadlineElapsed(t)
    \/ Respond503(t)
    \/ ForwardSend(t)
    \/ ForwardOk(t)
    \/ ForwardErr(t)
    \/ Panic(t)

SignalStep(s) == Shutdown(s) \/ Exit(s)

Fairness ==
    /\ \A t \in Tasks : WF_vars(TaskStep(t))
    /\ \A s \in Sigs : WF_vars(SignalStep(s))

SpecFair == Init /\ [][Next]_vars /\ Fairness

\* One run of a header copy loop of handler, over any header list, for the
\* inbound request or for the backend's response.
InitHeaders ==
    /\ InitProxy
    /\ hdir \in {"request", "response"}
    /\ hin \in HeaderLists
    /\ hidx = 1
    /\ hout = <<>>

NextHeaders == CopyRequestHeader \/ CopyResponseHeader

SpecHeaders == InitHeaders /\ [][NextHeaders]_vars

\* ------------------------------------------------------------------ claims
\* ensure_ready() has returned to handler in the task's current request.
Returned(t) == pc[t] \in {"forward", "awaiting", "respond503", "done",
                          "panic", "aborted"}

Errors == {ErrMissing, ErrSpawn, ErrTimeout}

\* C1 as stated: when the first calls of all N tasks raced on a false READY
\* and have all returned, the backend was spawned exactly once in total.
C1_ExactlyOnce ==
    (raced /\ reqs = NumTasks /\ \A t \in Tasks : Returned(t)) => spawns = 1

\* C1 amended: the spawns never exceed one plus the deadline expiries and
\* READY.store(false) runs so far, there is at least one once any call has
\* returned success, and racing calls that all returned success with no
\* expiry and no forwarding failure spawned exactly once.
C1_SpawnsBounded ==
    /\ spawns <= 1 + resets
    /\ (\E t \in Tasks : result[t] = ResOk) => spawns >= 1
    /\ (/\ raced /\ reqs = NumTasks /\ resets = 0
        /\ \A t \in Tasks : Returned(t) /\ result[t] = ResOk) => spawns = 1

C1_Witness ==
    /\ raced /\ reqs = NumTasks /\ resets = 0 /\ spawns = 1
    /\ \A t \in Tasks : Returned(t) /\ result[t] = ResOk

\* C2: READY is true only while the slot GO holds a process that is alive
\* and has passed its health check.
C2_ReadyImpliesLiveChecked ==
    READY => (GO # 0 /\ Alive(GO) /\ GO \in healthChecked)

\* C3: every outbound forward is issued while READY is true and reaches the
\* tracked process, which serves and has passed its health check.
C3_ForwardOnlyToHealthy ==
    [][\A t \in Tasks :
         (pc[t] = "forward" /\ pc'[t] = "awaiting") =>
             /\ READY
             /\ GO # 0
             /\ target'[t] = GO
             /\ proc[GO] = "serving"
             /\ GO \in healthChecked]_vars

\* C4: at most one task is inside the startup sequence and it holds
\* INIT_LOCK; a call leaves the first load by the fast path when READY is
\* true and else waits for the lock, which it takes only when free; the lock
\* holder's next step is the second load of READY, returning success without
\* touching anything when it is true.
C4_OneInitializer ==
    /\ [](\A t, u \in Tasks : (InStartup(t) /\ InStartup(u)) => t = u)
    /\ [](\A t \in Tasks :
            (InStartup(t) \/ pc[t] = "er_recheck") => INIT_LOCK = t)
    /\ [][\A t \in Tasks :
            /\ (pc[t] = "er_fast" /\ pc'[t] # "er_fast") =>
                   pc'[t] = IF READY THEN "forward" ELSE "er_lock"
            /\ (pc[t] = "er_lock" /\ pc'[t] # "er_lock") =>
                   (INIT_LOCK = 0 /\ INIT_LOCK' = t /\ pc'[t] = "er_recheck")
            /\ (pc[t] = "er_recheck" /\ pc'[t] # "er_recheck") =>
                   IF READY
                     THEN /\ pc'[t] = "forward"
                          /\ result'[t] = ResOk
                          /\ UNCHANGED <<READY, GO, proc, spawns>>
                     ELSE pc'[t] = "er_kill"]_vars

\* A waiter holds the lock after the initializer finished and finds READY set.
C4_Witness ==
    \E t \in Tasks : pc[t] = "er_recheck" /\ READY /\ spawns = 1

\* C5: at most one backend process is alive, every live process is the
\* tracked one or the one about to be stored; a spawn happens only with the
\* slot empty and no process alive, and the store never replaces a handle.
C5_OneLiveProcess ==
    /\ [](Cardinality({p \in Pids : Alive(p)}) <= 1)
    /\ [](\A p \in Pids : Alive(p) =>
            (GO = p \/ \E t \in Tasks : pc[t] = "er_store" /\ child[t] = p))
    /\ [][spawns' # spawns =>
            (GO = 0 /\ \A p \in Pids : ~Alive(p))]_vars
    /\ [][\A t \in Tasks :
            (pc[t] = "er_store" /\ pc'[t] # "er_store") =>
                (GO = 0 /\ GO' = child[t])]_vars

\* A second process runs and is tracked after the first was killed.
C5_Witness ==
    \E p, q \in Pids : p # q /\ proc[p] = "dead" /\ Alive(q) /\ GO = q

\* C6: a return of success leaves READY true; READY goes back to false only
\* by the store of a failed forward; a call that starts with READY true
\* returns success in one step that changes neither READY, the lock, the
\* slot, any process, nor the spawn, poll and reset counts.
C6_FastPathFrame ==
    /\ [][\A t \in Tasks :
            (result[t] # ResOk /\ result'[t] = ResOk) => READY']_vars
    /\ [][(READY /\ ~READY') =>
            \E t \in Tasks : pc[t] = "awaiting" /\ pc'[t] = "panic"]_vars
    /\ [][\A t \in Tasks :
            (pc[t] = "er_fast" /\ READY /\ pc'[t] # "er_fast") =>
                /\ pc'[t] = "forward"
                /\ result'[t] = ResOk
                /\ UNCHANGED <<READY, INIT_LOCK, GO, proc, child, polls,
                               spawns, resets, healthChecked>>]_vars

\* One task served a request and its next call returned on the fast path:
\* READY was never cleared and the only spawn is the first request's.
C6_Witness ==
    \E t \in Tasks :
        /\ pc[t] = "forward" /\ result[t] = ResOk
        /\ reqs >= 2 /\ resets = 0 /\ spawns = 1 /\ READY
        /\ \A u \in Tasks \ {t} : pc[u] = "idle"

\* C7: the return for a missing executable carries the not-found error,
\* spawns nothing, and leaves READY false, the slot empty, the lock free.
C7_MissingNoSpawn ==
    [][\A t \in Tasks :
         (pc[t] = "er_exists" /\ pc'[t] = "respond503") =>
             /\ result'[t] = ErrMissing
             /\ child[t] = 0
             /\ spawns' = spawns
             /\ proc' = proc
             /\ ~READY'
             /\ GO' = 0
             /\ INIT_LOCK' = 0]_vars

\* The executable is found missing by a startup that follows an earlier spawn.
C7_Witness ==
    \E t \in Tasks :
        pc[t] = "respond503" /\ result[t] = ErrMissing /\ spawns >= 1

\* C8: READY is false all through a startup sequence, and the return on the
\* deadline carries the timeout error with READY false, the slot empty and
\* the process this call spawned dead.
C8_TimeoutKills ==
    /\ [](\A t \in Tasks : InStartup(t) => ~READY)
    /\ [][\A t \in Tasks :
            (pc[t] = "er_poll" /\ pc'[t] = "respond503") =>
                /\ result'[t] = ErrTimeout
                /\ ~READY'
                /\ GO' = 0
                /\ child[t] # 0
                /\ proc'[child[t]] = "dead"]_vars

C8_Witness ==
    \E t \in Tasks :
        /\ pc[t] = "respond503" /\ result[t] = ErrTimeout
        /\ GO = 0 /\ spawns >= 1 /\ proc[spawns] = "dead"

\* C9: the outbound call is issued only by a request whose ensure_ready()
\* returned success; a request whose ensure_ready() failed never forwards
\* nor panics, and its handler's one step returns 503 with the error as the
\* body, changing no process, the slot, READY nor the lock.
C9_ErrorMeans503 ==
    /\ [](\A t \in Tasks :
            pc[t] \in {"forward", "awaiting", "panic", "aborted"} =>
                result[t] = ResOk)
    /\ [](\A t \in Tasks :
            result[t] \in Errors => pc[t] \in {"respond503", "done"})
    /\ [][\A t \in Tasks :
            (pc[t] = "respond503" /\ pc'[t] # "respond503") =>
                /\ pc'[t] = "done"
                /\ response'[t] = [status |-> 503, body |-> result[t]]
                /\ UNCHANGED <<READY, INIT_LOCK, GO, proc, target,
                               spawns>>]_vars

C9_Witness ==
    \E t \in Tasks :
        /\ pc[t] = "done" /\ result[t] \in Errors
        /\ response[t] = [status |-> 503, body |-> result[t]]

\* C10: the step that takes a failed outbound call stores false to READY and
\* changes neither the slot nor any process; the abort follows as a later
\* step, and an aborted invocation has returned no response.
C10_FailStoresThenAborts ==
    /\ [][\A t \in Tasks :
            (pc[t] = "awaiting" /\ pc'[t] # "awaiting") =>
                \/ /\ pc'[t] = "done"
                   /\ response'[t].status = 200
                \/ /\ pc'[t] = "panic"
                   /\ ~READY'
                   /\ response'[t] = NoResponse
                   /\ UNCHANGED <<GO, proc, INIT_LOCK>>]_vars
    /\ [][\A t \in Tasks :
            (pc[t] = "panic" /\ pc'[t] # "panic") =>
                /\ pc'[t] = "aborted"
                /\ response'[t] = NoResponse
                /\ UNCHANGED <<READY, GO, proc>>]_vars
    /\ [](\A t \in Tasks :
            pc[t] \in {"panic", "aborted"} => response[t] = NoResponse)

\* An invocation aborted; READY is false and the handle is still in the slot.
C10_Witness ==
    \E t \in Tasks :
        pc[t] = "aborted" /\ ~READY /\ GO # 0 /\ response[t] = NoResponse

\* C11: while READY is false a call never returns at its first load but goes
\* for INIT_LOCK; the lock holder that still loads false runs the startup
\* sequence, whose first step is kill_child(); READY comes back to true only
\* by a startup's successful probe; and a process is spawned only with the
\* slot empty and every earlier process, the stale one included, dead.
C11_FailureForcesStartup ==
    /\ [][\A t \in Tasks :
            /\ (pc[t] = "er_fast" /\ ~READY /\ pc'[t] # "er_fast") =>
                   (pc'[t] = "er_lock" /\ result'[t] = NoRes)
            /\ (pc[t] = "er_recheck" /\ ~READY /\ pc'[t] # "er_recheck") =>
                   pc'[t] = "er_kill"
            /\ (pc[t] = "er_kill" /\ pc'[t] # "er_kill") =>
                   /\ pc'[t] = "er_exists"
                   /\ GO' = 0
                   /\ GO # 0 => proc'[GO] = "dead"]_vars
    /\ [][(~READY /\ READY') =>
            \E t \in Tasks : /\ INIT_LOCK = t
                             /\ pc[t] = "er_probe"
                             /\ child[t] # 0]_vars
    /\ [][spawns' # spawns =>
            (GO = 0 /\ \A p \in Pids : proc[p] \in {"unborn", "dead"})]_vars

\* After a forward failed on a process that had been ready, a startup has
\* killed nothing alive and is about to store the replacement it spawned.
C11_Witness ==
    \E t, u \in Tasks :
        /\ pc[u] \in {"panic", "aborted"}
        /\ pc[t] = "er_store" /\ child[t] # 0
        /\ \E p \in healthChecked : proc[p] = "dead" /\ p # child[t]

\* C13: once the proxy has exited on a signal, a shutdown() has run and no
\* backend process it spawned is alive.
C13_NoOrphanAfterExit ==
    exited => /\ \E s \in Sigs : sig[s] = "exit"
              /\ \A p \in Pids : ~Alive(p)

\* READY is false and the slot still holds the handle of a process that had
\* passed its health check: no kill_child() has run since READY was cleared.
Stale == ~READY /\ GO # 0 /\ GO \in healthChecked

\* C12 as stated: after READY went from true to false a kill_child() call
\* follows, so the stale handle does not stay in the slot of a running
\* proxy for ever.
C12_DropLeadsToKill ==
    (Stale /\ ~exited) ~> (~Stale \/ exited)

\* C12 amended: the stale handle leaves the slot only by a kill_child() call,
\* READY stays false and no process is spawned before that call, and the
\* call does follow whenever a later ensure_ready() call or a shutdown() is
\* under way (or the proxy exits).
C12_KillBeforeReady ==
    /\ [][(Stale /\ ~Stale') =>
            (GO' = 0 /\ proc'[GO] = "dead" /\ ~READY')]_vars
    /\ [][Stale => spawns' = spawns]_vars
    /\ (Stale /\ (\/ \E t \in Tasks : pc[t] \in {"er_fast", "er_lock",
                                                 "er_recheck", "er_kill"}
                  \/ \E s \in Sigs : sig[s] = "shutdown"))
           ~> (~Stale \/ exited)

\* A later call waits at its first load while the stale handle is tracked.
C12_Witness ==
    \E t, u \in Tasks :
        Stale /\ pc[u] = "aborted" /\ pc[t] = "er_fast" /\ ~exited

\* C16: every ensure_ready() call that has entered the startup sequence
\* returns, with success or an error, unless the proxy exits first.
C16_StartupReturns ==
    \A t \in Tasks : InStartup(t) ~> (Returned(t) \/ exited)

\* A step that is one whole call of kill_child(): the first step of a
\* startup, the deadline branch, or shutdown().
KillChildCalled ==
    \/ \E t \in Tasks : pc[t] = "er_kill" /\ pc'[t] = "er_exists"
    \/ \E t \in Tasks : pc[t] = "er_poll" /\ pc'[t] = "respond503"
    \/ \E s \in Sigs : sig[s] = "shutdown" /\ sig'[s] = "exit"

\* C14: a kill_child() call with a process tracked leaves that process dead
\* and the slot empty and touches no other process; that process was never
\* killed before; with the slot empty the call changes no process and leaves
\* the slot empty, so a call that follows another changes nothing; a killed
\* process is dead and never tracked again.
C14_KillChildIdempotent ==
    /\ [][KillChildCalled =>
            /\ GO' = 0
            /\ IF GO # 0
                 THEN /\ proc' = [proc EXCEPT ![GO] = "dead"]
                      /\ GO \notin killed
                 ELSE /\ proc' = proc
                      /\ killed' = killed]_vars
    /\ [](\A p \in killed : proc[p] = "dead" /\ GO # p)

\* Both signal tasks ran shutdown(), one after the other, and so did a
\* startup before them: one call killed the process, the others found the
\* slot empty.
C14_Witness ==
    /\ \A s \in Sigs : sig[s] = "exit"
    /\ ~exited
    /\ killed # {}
    /\ \E t \in Tasks : pc[t] = "er_exists"

\* C17: the step on which ensure_ready() returns an error is taken by the
\* lock holder with READY false, frees INIT_LOCK and leaves READY false, and
\* right after it every caller waiting for the lock can take it; a call that
\* has returned an error never holds the lock; a waiter facing a free lock
\* does not wait forever: it gets the lock unless another caller takes it or
\* the proxy exits; and the holder that loads READY false runs the startup
\* sequence from its first step.
C17_ErrorFreesLock ==
    /\ [][\A t \in Tasks :
            (result[t] \notin Errors /\ result'[t] \in Errors) =>
                /\ INIT_LOCK = t
                /\ INIT_LOCK' = 0
                /\ ~READY /\ ~READY'
                /\ \A u \in Tasks :
                     pc'[u] = "er_lock" => (ENABLED AcquireLock(u))']_vars
    /\ [](\A t \in Tasks : result[t] \in Errors => INIT_LOCK # t)
    /\ \A u \in Tasks :
         (pc[u] = "er_lock" /\ INIT_LOCK = 0) ~>
             (pc[u] # "er_lock" \/ INIT_LOCK # 0 \/ exited)
    /\ [][\A u \in Tasks :
            (pc[u] = "er_recheck" /\ result[u] = NoRes /\ ~READY
             /\ pc'[u] # "er_recheck") =>
                (pc'[u] = "er_kill" /\ INIT_LOCK' = u)]_vars

\* A startup failed and returned its error, and the caller that had been
\* waiting on the lock is now running the startup sequence itself.
C17_Witness ==
    \E t, u \in Tasks :
        /\ result[t] \in Errors /\ pc[t] \in {"respond503", "done"}
        /\ InStartup(u) /\ INIT_LOCK = u
        /\ reqs = NumTasks

\* C18: READY changes only in two kinds of step: to true, by the task that
\* holds INIT_LOCK, as the outcome of a successful probe of the process it
\* spawned; to false, by a handler taking the failure of its outbound call.
\* The steps of kill_child(), of shutdown() and of the error returns of
\* ensure_ready() leave READY as it is.
C18_ReadyWriters ==
    /\ [][(~READY /\ READY') =>
            \E t \in Tasks :
                /\ INIT_LOCK = t
                /\ pc[t] = "er_probe" /\ pc'[t] = "forward"
                /\ child[t] # 0
                /\ GO = child[t]
                /\ healthChecked' = healthChecked \cup {child[t]}
                /\ result'[t] = ResOk]_vars
    /\ [][(READY /\ ~READY') =>
            \E t \in Tasks :
                /\ pc[t] = "awaiting" /\ pc'[t] = "panic"
                /\ result[t] = ResOk]_vars
    /\ [][(\/ KillChildCalled
           \/ \E s \in Sigs : sig'[s] # sig[s]
           \/ exited' # exited
           \/ \E t \in Tasks : result'[t] \in Errors /\ result[t] = NoRes) =>
              READY' = READY]_vars

\* READY was set by a startup and cleared by a failed forward, and after
\* that a shutdown() ran kill_child() on the stale process: READY stayed
\* false through it.
C18_Witness ==
    /\ ~READY
    /\ healthChecked # {}
    /\ \E t \in Tasks : pc[t] \in {"panic", "aborted"}
    /\ \E s \in Sigs : sig[s] = "exit"
    /\ \E p \in healthChecked : p \in killed

\* C19: a probe that completes takes the loop either to the success return
\* or back to the loop head, and the latter changes nothing but the count of
\* iterations: no result, no kill, the lock still held, READY as it was; at
\* the loop head before the deadline a fresh probe can be sent; the loop is
\* left with an error only from its head, by the deadline branch, with the
\* timeout error.
C19_FailedProbeRetries ==
    /\ [][\A t \in Tasks :
            (pc[t] = "er_probe" /\ pc'[t] # "er_probe") =>
                \/ /\ pc'[t] = "forward"
                   /\ result'[t] = ResOk
                \/ /\ pc'[t] = "er_poll"
                   /\ polls'[t] = polls[t] + 1
                   /\ result'[t] = NoRes
                   /\ UNCHANGED <<READY, INIT_LOCK, GO, proc, child,
                                  killed, resets>>]_vars
    /\ [](\A t \in Tasks :
            (pc[t] = "er_poll" /\ polls[t] < MaxPolls /\ ~exited) =>
                ENABLED ProbeSend(t))
    /\ [][\A t \in Tasks :
            (pc[t] \in {"er_poll", "er_probe"} /\ result'[t] \in Errors) =>
                /\ pc[t] = "er_poll"
                /\ pc'[t] = "respond503"
                /\ result'[t] = ErrTimeout
                /\ resets' = resets + 1]_vars

\* A first probe failed and the second one is under way, the spawned
\* process running and tracked.
C19_Witness ==
    \E t \in Tasks :
        /\ pc[t] = "er_probe" /\ polls[t] = 1
        /\ child[t] # 0 /\ GO = child[t] /\ Alive(child[t])
        /\ result[t] = NoRes /\ INIT_LOCK = t

\* C20: the failure of an outbound call that was connected to a process
\* other than the tracked one, or got no connection, taken while READY is
\* true for a tracked process that serves and passed its health check,
\* leaves READY true.
C20_StaleFailureSparesReplacement ==
    [][\A t \in Tasks :
         (/\ pc[t] = "awaiting" /\ pc'[t] = "panic"
          /\ target[t] # GO
          /\ READY
          /\ GO # 0
          /\ proc[GO] = "serving"
          /\ GO \in healthChecked) => READY']_vars

\* Two names are the same up to the case of their letters.
SameIgnoringCase(a, b) ==
    /\ Len(a) = Len(b)
    /\ \A i \in 1..Len(a) : to_lowercase_char(a[i]) = to_lowercase_char(b[i])

\* The name is, compared case-insensitively, one of the nine listed names.
Denied(name) == \E d \in HopByHop : SameIgnoringCase(name, d)

KeptHeader(h) == ~Denied(h[1])

\* C15: in either direction, the headers copied so far are exactly the
\* headers iterated so far whose name is not, compared case-insensitively,
\* one of the nine listed names, each with its own value; once the loop has
\* gone through the list this is the whole filtered list.
C15_HeadersFiltered ==
    /\ hdir \in {"request", "response"}
    /\ hout = SelectSeq(SubSeq(hin, 1, hidx - 1), KeptHeader)
    /\ hidx > Len(hin) =>
          /\ hout = SelectSeq(hin, KeptHeader)
          /\ \A i \in 1..Len(hout) : ~Denied(hout[i][1])
          /\ \A i \in 1..Len(hin) :
               ~Denied(hin[i][1]) => \E j \in 1..Len(hout) : hout[j] = hin[i]

\* A response with Host written in mixed case and a header that is kept: the
\* loop is done and only the second one was copied, with its value.
C15_Witness ==
    /\ hdir = "response"
    /\ Len(hin) = 2 /\ hidx = 3
    /\ hin[1][1] = <<"h", "O", "S", "t">>
    /\ hin[2] = <<<<"h", "o", "s", "t", "s">>, "v2">>
    /\ hout = <<hin[2]>>

====
